---- MODULE Spec2Model ----
(***************************************************************************)
(* Electron Fiddle: the renderer's template cache (src/renderer/content.ts)*)
(* and the main process's command-line commands open / test / bisect.      *)
(*                                                                         *)
(* The two live in two processes, so each has its own specification:       *)
(*   Spec     - the template cache: getTemplate, prepareTemplate and the   *)
(*              steps of the promises they create;                         *)
(*   FairSpec - Spec with the event loop's fairness (a pending promise's   *)
(*              continuation is eventually run);                           *)
(*   CliSpec  - one command-line invocation and the IPC events it gets.    *)
(***************************************************************************)
EXTENDS Integers, Sequences, FiniteSets, TLC

\* ------------------------------------------------------------------ bounds
MaxMajor == 2
MaxCalls == 2
MaxEvents == 2
MaxVersions == 10

VARIABLES
  templateCache,  \* content.ts: branch -> promise (0: no entry)
  promises,       \* every promise getTemplate ever created, in creation order
  calls,          \* the getTemplate calls made so far: (version, promise returned)
  catalog,        \* what getElectronVersions() returns
  disk,           \* TEMPLATES_DIR: the state of each branch's folder
  cmd,            \* command line: the command run, its arguments, how it ended
  ipcLog,         \* command line: the ipcMainManager send/on/once calls, in order
  listeners,      \* command line: the listeners now registered, in order
  exits,          \* command line: the codes app.exit was called with, in order
  logs,           \* command line: the console.log / console.warn lines, in order
  events,         \* command line: the IPC events delivered so far, in order
  bisector        \* BisectController: the search over the version list

contentVars == <<templateCache, promises, calls, catalog, disk>>
cliVars == <<cmd, ipcLog, listeners, exits, logs, events>>
bisectVars == <<bisector>>
vars == <<templateCache, promises, calls, catalog, disk,
          cmd, ipcLog, listeners, exits, logs, events, bisector>>

\* ---------------------------------------------------------- version strings
\* JavaScript values: undefined, a string that is no version, a path, or the
\* version string "[v]major.minor.patch[-beta.pre]" (pre = 0: no prerelease
\* tag).
Undefined == [kind |-> "undefined"]

Garbage == [kind |-> "garbage"]

Str(text) == [kind |-> "string", text |-> text]

VersionString(lead, ma, mi, pa, pr) ==
  [kind |-> "semver", v |-> lead, major |-> ma, minor |-> mi, patch |-> pa, pre |-> pr]

\* semver.parse: null unless the argument is a string holding a version;
\* a leading "v" is accepted and dropped.
NullSemVer == [valid |-> FALSE, major |-> 0, minor |-> 0, patch |-> 0, pre |-> 0]

SemverParse(version) ==
  IF version.kind = "semver"
    THEN [valid |-> TRUE, major |-> version.major, minor |-> version.minor,
          patch |-> version.patch, pre |-> version.pre]
    ELSE NullSemVer

CompareIdentifiers(a, b) == IF a < b THEN -1 ELSE IF a > b THEN 1 ELSE 0

\* SemVer.comparePre: a version with a prerelease tag sorts before the same
\* version without one.
ComparePre(a, b) ==
  IF a.pre # 0 /\ b.pre = 0 THEN -1
  ELSE IF a.pre = 0 /\ b.pre # 0 THEN 1
  ELSE CompareIdentifiers(a.pre, b.pre)

\* semver.compare on two parsed versions: -1, 0 or 1.
SemverCompare(a, b) ==
  IF a.major # b.major THEN CompareIdentifiers(a.major, b.major)
  ELSE IF a.minor # b.minor THEN CompareIdentifiers(a.minor, b.minor)
  ELSE IF a.patch # b.patch THEN CompareIdentifiers(a.patch, b.patch)
  ELSE ComparePre(a, b)

\* ------------------------------------------------------------ template cache
MasterBranch == [name |-> "master", major |-> 0]

MajorBranch(m) == [name |-> "x-y", major |-> m]

Branches == {MasterBranch} \cup {MajorBranch(m) : m \in 0..MaxMajor}

STATIC_TEMPLATE_DIR == [kind |-> "static", branch |-> MasterBranch]

\* path.join(TEMPLATES_DIR, `electron-quick-start-${branch}`)
TemplateFolder(branch) == [kind |-> "template", branch |-> branch]

\* getTemplate, line 88: `parsed?.major ? ... : 'master'`; a major of 0 is falsy.
BranchOf(version) ==
  LET parsed == SemverParse(version)
  IN  IF parsed.valid /\ parsed.major # 0 THEN MajorBranch(parsed.major) ELSE MasterBranch

\* The versions getTemplate is called with: none, an unparseable one, m.0.0
\* for every major and 1.1.0.
TemplateVersions ==
  {Undefined, Garbage, VersionString(FALSE, 1, 1, 0, 0)}
    \cup {VersionString(FALSE, ma, 0, 0, 0) : ma \in 0..MaxMajor}

\* The versions the catalog learns of, in the order it learns of them: a
\* local build numbered like the newest major, a remote entry semver cannot
\* parse, then the remote releases by major.
ReleaseHistory ==
  <<[version |-> VersionString(FALSE, MaxMajor, 0, 0, 0), source |-> "local"],
    [version |-> Garbage, source |-> "remote"]>>
    \o [ma \in 1..(MaxMajor + 1) |->
          [version |-> VersionString(FALSE, ma - 1, 0, 0, 0), source |-> "remote"]]

Known(n) == {ReleaseHistory[k] : k \in 1..n}

\* isReleasedMajor, lines 69-74: the newest parseable remote release, or null.
NewestRelease(versions) ==
  LET remote == {e \in versions : e.source = "remote"}
      parsed == {SemverParse(e.version) : e \in remote} \ {NullSemVer}
  IN  IF parsed = {} THEN NullSemVer
      ELSE CHOOSE x \in parsed : \A y \in parsed : SemverCompare(y, x) <= 0

\* isReleasedMajor without the filter on VersionSource.remote.
isReleasedMajorAnySource(version, versions) ==
  LET all == {SemverParse(e.version) : e \in versions} \ {NullSemVer}
      parsed == SemverParse(version)
  IN  parsed.valid /\ all # {} /\ \E x \in all : parsed.major <= x.major

isReleasedMajor(version, versions) ==
  LET newestRelease == NewestRelease(versions)
      parsed == SemverParse(version)
  IN  parsed.valid /\ newestRelease.valid /\ parsed.major <= newestRelease.major

\* readFiddle: the directory's files as editor values.
readFiddle(folder, d) ==
  IF folder.kind = "static" THEN [origin |-> "static", branch |-> MasterBranch]
  ELSE IF d[folder.branch] = "absent" THEN [origin |-> "empty", branch |-> folder.branch]
  ELSE [origin |-> d[folder.branch], branch |-> folder.branch]

NoValue == [origin |-> "none", branch |-> MasterBranch]

\* The promise `prepareTemplate(branch).then(readFiddle)`, suspended at its
\* first await.
NetworkPromise(branch) ==
  [branch |-> branch, strategy |-> "network", pc |-> "import",
   folder |-> TemplateFolder(branch), fetched |-> FALSE, failed |-> "none",
   status |-> "pending", value |-> NoValue]

\* The promise `readFiddle(STATIC_TEMPLATE_DIR)`.
StaticPromise(branch) ==
  [branch |-> branch, strategy |-> "static", pc |-> "read",
   folder |-> STATIC_TEMPLATE_DIR, fetched |-> FALSE, failed |-> "none",
   status |-> "pending", value |-> NoValue]

\* A lookup that tries again once the cached work fell back after a failure.
CacheLookupRetry(cache, branch) ==
  IF cache[branch] # 0 /\ promises[cache[branch]].failed # "none" THEN 0 ELSE cache[branch]

\* getTemplate, line 92: `templateCache[branch]`.
CacheLookup(cache, branch) == cache[branch]

\* A getTemplate that forgets to store the promise.
CacheStoreNothing(cache, branch, id) == cache

\* getTemplate, line 98: `templateCache[branch] = pending`.
CacheStore(cache, branch, id) == [cache EXCEPT ![branch] = id]

\* getTemplate, lines 95-97: the strategy for a branch with no cache entry.
NewPromise(version, branch, versions) ==
  IF isReleasedMajor(version, versions) THEN NetworkPromise(branch) ELSE StaticPromise(branch)

\* getTemplate(version): synchronous up to its return, so one step.
getTemplate(version) ==
  LET branch == BranchOf(version)
      pending == CacheLookup(templateCache, branch)
      id == Len(promises) + 1
  IN  /\ Cardinality(calls) < MaxCalls
      /\ IF pending = 0
           THEN /\ promises' = Append(promises, NewPromise(version, branch, catalog))
                /\ templateCache' = CacheStore(templateCache, branch, id)
                /\ calls' = calls \cup {[version |-> version, branch |-> branch,
                                         pending |-> id]}
           ELSE /\ calls' = calls \cup {[version |-> version, branch |-> branch,
                                         pending |-> pending]}
                /\ UNCHANGED <<promises, templateCache>>
      /\ UNCHANGED <<catalog, disk>>
      /\ UNCHANGED <<cliVars, bisectVars>>

\* prepareTemplate without its try/catch: the failure rejects the promise.
Rethrow(p, step) ==
  [p EXCEPT !.failed = step, !.pc = "done", !.status = "rejected"]

\* A catch block that logs and keeps the branch's folder.
CatchKeepFolder(p, step) ==
  [p EXCEPT !.failed = step, !.pc = "read"]

\* prepareTemplate, lines 49-52: the catch block.
Catch(p, step) ==
  [p EXCEPT !.folder = STATIC_TEMPLATE_DIR, !.failed = step, !.pc = "read"]

\* fs.existsSync(folder)
existsSync(folder, d) == d[folder.branch] # "absent"

\* prepareTemplate, lines 33-37: fancyImport resolves or rejects; then the
\* folder is looked up and, when missing, the download is started.
FancyImportDone(i, ok) ==
  /\ i \in 1..Len(promises)
  /\ promises[i].status = "pending" /\ promises[i].pc = "import"
  /\ promises' = [promises EXCEPT ![i] =
       IF ~ok THEN Catch(@, "import")
       ELSE IF existsSync(@.folder, disk) THEN [@ EXCEPT !.pc = "read"]
       ELSE [@ EXCEPT !.pc = "fetch", !.fetched = TRUE]]
  /\ UNCHANGED <<templateCache, calls, catalog, disk>>
  /\ UNCHANGED <<cliVars, bisectVars>>

\* prepareTemplate, lines 37-42: fetch rejects, or resolves with a response
\* that is ok or not.
FetchDone(i, outcome) ==
  /\ i \in 1..Len(promises)
  /\ promises[i].status = "pending" /\ promises[i].pc = "fetch"
  /\ promises' = [promises EXCEPT ![i] =
       IF outcome = "throw" THEN Catch(@, "fetch")
       ELSE IF outcome = "notok" THEN Catch(@, "status")
       ELSE [@ EXCEPT !.pc = "arrayBuffer"]]
  /\ UNCHANGED <<templateCache, calls, catalog, disk>>
  /\ UNCHANGED <<cliVars, bisectVars>>

\* prepareTemplate, lines 42-43
ArrayBufferDone(i, ok) ==
  /\ i \in 1..Len(promises)
  /\ promises[i].status = "pending" /\ promises[i].pc = "arrayBuffer"
  /\ promises' = [promises EXCEPT ![i] =
       IF ok THEN [@ EXCEPT !.pc = "ensureDir"] ELSE Catch(@, "arrayBuffer")]
  /\ UNCHANGED <<templateCache, calls, catalog, disk>>
  /\ UNCHANGED <<cliVars, bisectVars>>

\* prepareTemplate, lines 43-45
EnsureDirDone(i, ok) ==
  /\ i \in 1..Len(promises)
  /\ promises[i].status = "pending" /\ promises[i].pc = "ensureDir"
  /\ promises' = [promises EXCEPT ![i] =
       IF ok THEN [@ EXCEPT !.pc = "decompress"] ELSE Catch(@, "ensureDir")]
  /\ UNCHANGED <<templateCache, calls, catalog, disk>>
  /\ UNCHANGED <<cliVars, bisectVars>>

\* prepareTemplate, lines 45-54: decompress resolves (the folder is there) or
\* rejects (having written nothing, or part of the folder).
DecompressDone(i, outcome) ==
  /\ i \in 1..Len(promises)
  /\ promises[i].status = "pending" /\ promises[i].pc = "decompress"
  /\ promises' = [promises EXCEPT ![i] =
       IF outcome = "ok" THEN [@ EXCEPT !.pc = "read"] ELSE Catch(@, "decompress")]
  /\ disk' = [disk EXCEPT ![promises[i].branch] =
       IF outcome = "ok" THEN "complete"
       ELSE IF outcome = "partial" /\ @ = "absent" THEN "partial"
       ELSE @]
  /\ UNCHANGED <<templateCache, calls, catalog>>
  /\ UNCHANGED <<cliVars, bisectVars>>

\* `.then(readFiddle)` / `readFiddle(STATIC_TEMPLATE_DIR)`: the promise settles.
ReadFiddleDone(i) ==
  /\ i \in 1..Len(promises)
  /\ promises[i].status = "pending" /\ promises[i].pc = "read"
  /\ promises' = [promises EXCEPT ![i] =
       [@ EXCEPT !.pc = "done", !.status = "fulfilled",
                 !.value = readFiddle(promises[i].folder, disk)]]
  /\ UNCHANGED <<templateCache, calls, catalog, disk>>
  /\ UNCHANGED <<cliVars, bisectVars>>

\* The version catalog learns of one more version.
UpdateCatalog ==
  /\ Cardinality(catalog) < Len(ReleaseHistory)
  /\ catalog' = Known(Cardinality(catalog) + 1)
  /\ UNCHANGED <<templateCache, promises, calls, disk>>
  /\ UNCHANGED <<cliVars, bisectVars>>

\* -------------------------------------------------------------- command line
\* process.cwd(), the default of test's --version and --fiddle options.
Cwd == Str("<cwd>")

\* JavaScript truthiness of an option value: undefined is falsy, a non-empty
\* string is truthy.
Truthy(value) == value # Undefined

\* normalizeVersion: drops a leading "v".
normalizeVersion(version) ==
  IF version.kind = "semver" THEN [version EXCEPT !.v = FALSE] ELSE version

\* The versions given to bisect and to test --version.
CliVersions ==
  {Garbage, VersionString(TRUE, 1, 0, 0, 0), VersionString(FALSE, 1, 0, 0, 1),
   VersionString(FALSE, 1, 0, 0, 0), VersionString(FALSE, 2, 1, 0, 0)}

\* Strings are sequences of characters.
GistUrlPrefix ==
  <<"h", "t", "t", "p", "s", ":", "/", "/", "g", "i", "s", "t", ".",
    "g", "i", "t", "h", "u", "b", ".", "c", "o", "m">>

HexDigits ==
  {"0", "1", "2", "3", "4", "5", "6", "7", "8", "9",
   "a", "b", "c", "d", "e", "f", "A", "B", "C", "D", "E", "F"}

GistIdLength == 32

\* af3e1a018f5dcce4a2ff40004ef5bab5
ExampleGistId ==
  <<"a", "f", "3", "e", "1", "a", "0", "1", "8", "f", "5", "d", "c", "c", "e", "4",
    "a", "2", "f", "f", "4", "0", "0", "0", "4", "e", "f", "5", "b", "a", "b", "5">>

\* String.prototype.startsWith
StartsWith(str, prefix) ==
  Len(str) >= Len(prefix) /\ SubSeq(str, 1, Len(prefix)) = prefix

\* String.prototype.endsWith, for one character
EndsWith(str, ch) == Len(str) > 0 /\ str[Len(str)] = ch

\* str.slice(0, -1)
SliceDropLast(str) == SubSeq(str, 1, Len(str) - 1)

\* str.split(sep).pop(): what follows the last separator.
SplitPop(str, sep) ==
  LET at == {i \in 1..Len(str) : str[i] = sep}
      last == IF at = {} THEN 0 ELSE CHOOSE i \in at : \A j \in at : j <= i
  IN  SubSeq(str, last + 1, Len(str))

\* id.match(/[0-9A-Fa-f]{32}/): the pattern is not anchored.
MatchesGistId(id) ==
  \E i \in 1..(Len(id) - GistIdLength + 1) :
    \A k \in 0..(GistIdLength - 1) : id[i + k] \in HexDigits

\* open, lines 106-112: the gist id of a source that is no local path.
GistIdOf(source) ==
  IF StartsWith(source, GistUrlPrefix)
    THEN SplitPop(IF EndsWith(source, "/") THEN SliceDropLast(source) ELSE source, "/")
    ELSE source

\* The arguments given to open: the texts, each naming an existing path or not.
OpenTexts ==
  {ExampleGistId,
   GistUrlPrefix \o <<"/", "c", "k", "e", "r", "r", "/">> \o ExampleGistId \o <<"/">>,
   GistUrlPrefix \o <<"/">> \o ExampleGistId,
   GistUrlPrefix \o <<"/">> \o ExampleGistId \o <<"/", "/">>,
   ExampleGistId \o <<"z", "z">>,
   <<"n", "o", "t", "-", "a", "-", "g", "i", "s", "t">>,
   <<"/", "p", "a", "t", "h">>}

OpenSources == [exists : BOOLEAN, text : OpenTexts]

RunResults == {"success", "failure", "invalid"}

BisectResults ==
  [goodVersion : {Undefined, VersionString(FALSE, 1, 0, 0, 0)},
   badVersion : {Undefined, VersionString(FALSE, 2, 0, 0, 0)}]

\* The command lines of bisect and test: what the user typed (--fiddle-dir
\* and --fiddle-gist are not given together).
BisectCommandLines ==
  {cl \in [good : CliVersions, bad : CliVersions,
            fiddleDir : {Undefined, Str("/path/to/fiddle")},
            fiddleGist : {Undefined, Str("gist")},
            betas : {"undefined", "true", "false"},
            nightlies : {"undefined", "true", "false"}] :
     cl.fiddleDir = Undefined \/ cl.fiddleGist = Undefined}

TestCommandLines ==
  [version : {Undefined} \cup CliVersions, fiddle : {Undefined, Str("/path/to/fiddle")}]

\* processCommandLine, lines 142-151: commander's option values for bisect.
BisectOptions(cl) ==
  [fiddleDir |-> cl.fiddleDir, fiddleGist |-> cl.fiddleGist,
   betas |-> cl.betas, nightlies |-> cl.nightlies]

\* processCommandLine, lines 153-158: commander's option values for test;
\* both options default to process.cwd().
TestOptions(cl) ==
  [version |-> IF cl.version = Undefined THEN Cwd ELSE cl.version,
   fiddle |-> IF cl.fiddle = Undefined THEN Cwd ELSE cl.fiddle]

\* opts.fiddle
OptFiddleValue(opts) == IF "fiddle" \in DOMAIN opts THEN opts.fiddle ELSE Undefined

\* opts.version
OptVersionValue(opts) == IF "version" \in DOMAIN opts THEN opts.version ELSE Undefined

Send(channel, args) == [op |-> "send", channel |-> channel, args |-> args]

On(channel) == [op |-> "on", channel |-> channel, args |-> <<>>]

Once(channel) == [op |-> "once", channel |-> channel, args |-> <<>>]

Log(text, detail) == [level |-> "log", text |-> text, detail |-> detail]

Warn(text, detail) == [level |-> "warn", text |-> text, detail |-> detail]

Effects(ipc, out) == [ipc |-> ipc, logs |-> out]

\* optFiddle
optFiddle(opts) ==
  LET fiddle == OptFiddleValue(opts)
  IN  Effects(<<Send("FS_OPEN_FIDDLE", <<fiddle>>)>>, <<Log("Loading", <<fiddle>>)>>)

\* optVersion
optVersion(opts) ==
  LET version == OptVersionValue(opts)
  IN  IF Truthy(version)
        THEN Effects(<<Send("SET_VERSION", <<version>>)>>,
                     <<Log("Setting version", <<version>>)>>)
        ELSE Effects(<<>>, <<>>)

\* optShow
optShow(opts) ==
  LET channels == (IF opts.betas = "true" THEN <<"beta">> ELSE <<>>)
                    \o (IF opts.nightlies = "true" THEN <<"nightly">> ELSE <<>>)
  IN  IF Len(channels) > 0
        THEN Effects(<<Send("SHOW_CHANNELS", channels)>>, <<Log("Showing", channels)>>)
        ELSE Effects(<<>>, <<>>)

\* optHide
optHide(opts) ==
  LET channels == (IF opts.betas = "false" THEN <<"beta">> ELSE <<>>)
                    \o (IF opts.nightlies = "false" THEN <<"nightly">> ELSE <<>>)
  IN  IF Len(channels) > 0
        THEN Effects(<<Send("HIDE_CHANNELS", channels)>>, <<Log("Hiding", channels)>>)
        ELSE Effects(<<>>, <<>>)

NoName == [what |-> "", target |-> <<>>]

Listener(channel, once, handler, name, exitWhenDone) ==
  [channel |-> channel, once |-> once, handler |-> handler, name |-> name,
   exitWhenDone |-> exitWhenDone]

\* A listener registered with `on`, which stays after it has run.
OnListener(channel, handler) == Listener(channel, FALSE, handler, NoName, FALSE)

\* bisect line 77, test line 129: `ipcMainManager.once(...)`, a listener that
\* is removed when it has run.
OnceListener(channel, handler) == Listener(channel, TRUE, handler, NoName, FALSE)

BisectOptCallsFiddleFirst(opts) ==
  Effects(optFiddle(opts).ipc \o optHide(opts).ipc \o optShow(opts).ipc,
          optFiddle(opts).logs \o optHide(opts).logs \o optShow(opts).logs)

\* bisect, lines 63-65: optHide(opts); optShow(opts); optFiddle(opts)
BisectOptCalls(opts) ==
  Effects(optHide(opts).ipc \o optShow(opts).ipc \o optFiddle(opts).ipc,
          optHide(opts).logs \o optShow(opts).logs \o optFiddle(opts).logs)

\* bisect, lines 76-80: on(OUTPUT_ENTRY), once(BISECT_DONE), send(FIDDLE_BISECT)
BisectRunCalls(good, bad) ==
  <<On("OUTPUT_ENTRY"), Once("BISECT_DONE"), Send("FIDDLE_BISECT", <<good, bad>>)>>

TestRunCallsSendFirst == <<Send("FIDDLE_RUN", <<>>), On("OUTPUT_ENTRY"), Once("RUN_DONE")>>

\* test, lines 128-133: on(OUTPUT_ENTRY), once(RUN_DONE), send(FIDDLE_RUN)
TestRunCalls == <<On("OUTPUT_ENTRY"), Once("RUN_DONE"), Send("FIDDLE_RUN", <<>>)>>

\* bisect, line 70 reversed: swaps when good sorts before bad.
NeedsSwapInverted(good, bad) == SemverCompare(SemverParse(good), SemverParse(bad)) < 0

\* bisect, line 70: `semver.compare(good, bad) > 0`
NeedsSwap(good, bad) == SemverCompare(SemverParse(good), SemverParse(bad)) > 0

CompareNeverThrows(good, bad) == FALSE

\* bisect, line 70: semver.compare builds a SemVer from each argument, and
\* that constructor throws a TypeError on a version it cannot parse.
CompareThrows(good, bad) == ~SemverParse(good).valid \/ ~SemverParse(bad).valid

\* bisect(good, bad, opts); semver.compare throws on a version it cannot parse.
bisect(cl) ==
  LET opts == BisectOptions(cl)
      pre == BisectOptCalls(opts)
      good == normalizeVersion(cl.good)
      bad == normalizeVersion(cl.bad)
      throws == CompareThrows(good, bad)
      swap == ~throws /\ NeedsSwap(good, bad)
      first == IF swap THEN bad ELSE good
      second == IF swap THEN good ELSE bad
  IN  /\ cmd.state = "start"
      /\ cmd' = [name |-> "bisect", state |-> IF throws THEN "threw" ELSE "returned",
                 args |-> cl]
      /\ ipcLog' = ipcLog \o pre.ipc \o
           (IF throws THEN <<>> ELSE BisectRunCalls(first, second))
      /\ logs' = logs \o pre.logs \o
           (IF swap THEN <<Warn("Swapping", <<first, second>>)>> ELSE <<>>)
      /\ listeners' = listeners \o
           (IF throws THEN <<>>
            ELSE <<Listener("OUTPUT_ENTRY", FALSE, "onOutputEntry", NoName, FALSE),
                   OnceListener("BISECT_DONE", "bisectDone")>>)
      /\ UNCHANGED <<exits, events>>
      /\ UNCHANGED <<contentVars, bisectVars>>

\* logWhenDone called with exitWhenDone = true.
ExitWhenDoneAlways == TRUE

\* logWhenDone, line 83: `exitWhenDone = false`, and no caller passes it.
ExitWhenDoneDefault == FALSE

\* logWhenDone(name)
logWhenDone(name) ==
  Effects(<<Once("COMMAND_DONE")>>,
          <<Listener("COMMAND_DONE", TRUE, "commandDone", name, ExitWhenDoneDefault)>>)

\* open(source)
open(source) ==
  LET id == GistIdOf(source.text)
      local == logWhenDone([what |-> "open fiddle", target |-> source.text])
      gist == logWhenDone([what |-> "open gist", target |-> id])
  IN  /\ cmd.state = "start"
      /\ cmd' = [name |-> "open", state |-> "returned", args |-> source]
      /\ IF source.exists
           THEN /\ ipcLog' = ipcLog \o local.ipc \o <<Send("FS_OPEN_FIDDLE", <<source.text>>)>>
                /\ listeners' = listeners \o local.logs
           ELSE IF Len(id) > 0 /\ MatchesGistId(id)
           THEN /\ ipcLog' = ipcLog \o gist.ipc \o
                     <<Send("LOAD_GIST_REQUEST", <<[id |-> id, confirmed |-> TRUE]>>)>>
                /\ listeners' = listeners \o gist.logs
           ELSE UNCHANGED <<ipcLog, listeners>>
      /\ UNCHANGED <<exits, logs, events>>
      /\ UNCHANGED <<contentVars, bisectVars>>

\* test(opts)
test(cl) ==
  LET opts == TestOptions(cl)
      fiddle == optFiddle(opts)
      version == optVersion(opts)
  IN  /\ cmd.state = "start"
      /\ cmd' = [name |-> "test", state |-> "returned", args |-> cl]
      /\ ipcLog' = ipcLog \o fiddle.ipc \o version.ipc \o TestRunCalls
      /\ logs' = logs \o fiddle.logs \o version.logs
      /\ listeners' = listeners \o
           <<Listener("OUTPUT_ENTRY", FALSE, "onOutputEntry", NoName, FALSE),
             OnceListener("RUN_DONE", "runDone")>>
      /\ UNCHANGED <<exits, events>>
      /\ UNCHANGED <<contentVars, bisectVars>>

\* An exit code that takes every result but FAILURE for a success.
RunExitCodeLenient(result) == IF result = "failure" THEN 1 ELSE 0

\* test, line 131: `result === RunResult.SUCCESS ? 0 : 1`
RunExitCode(result) == IF result = "success" THEN 0 ELSE 1

\* An exit code content with either end of the boundary.
BisectExitCodeEither(result) ==
  IF Truthy(result.goodVersion) \/ Truthy(result.badVersion) THEN 0 ELSE 1

\* bisect, line 78: `result.goodVersion && result.badVersion ? 0 : 1`
BisectExitCode(result) ==
  IF Truthy(result.goodVersion) /\ Truthy(result.badVersion) THEN 0 ELSE 1

\* logWhenDone, line 87: `success ? 0 : 1`
CommandExitCode(success) == IF success THEN 0 ELSE 1

\* What a listener's handler passes to app.exit for an event's payload.
HandlerExits(l, payload) ==
  IF l.handler = "bisectDone" THEN <<BisectExitCode(payload)>>
  ELSE IF l.handler = "runDone" THEN <<RunExitCode(payload)>>
  ELSE IF l.handler = "commandDone" /\ l.exitWhenDone THEN <<CommandExitCode(payload)>>
  ELSE <<>>

\* What a listener's handler prints for an event's payload.
HandlerLogs(l, payload) ==
  IF l.handler = "onOutputEntry" THEN <<Log("output", <<payload>>)>>
  ELSE IF l.handler = "runDone" THEN <<Log("result", <<payload>>)>>
  ELSE IF l.handler = "commandDone"
    THEN <<Log(IF payload THEN "command succeeded" ELSE "command failed", <<l.name>>)>>
  ELSE <<>>

RECURSIVE Handle(_, _, _)
\* The exits and the lines of the listeners of a channel, run in order.
Handle(ls, channel, payload) ==
  IF ls = <<>> THEN Effects(<<>>, <<>>)
  ELSE LET rest == Handle(Tail(ls), channel, payload)
       IN  IF Head(ls).channel = channel
             THEN Effects(HandlerExits(Head(ls), payload) \o rest.ipc,
                          HandlerLogs(Head(ls), payload) \o rest.logs)
             ELSE rest

\* EventEmitter.emit: every listener of the channel runs; a once listener is
\* removed.
Emit(channel, payload) ==
  LET done == Handle(listeners, channel, payload)
      Stays(l) == ~(l.channel = channel /\ l.once)
  IN  /\ cmd.state # "start"
      /\ Len(events) < MaxEvents
      /\ events' = Append(events, [channel |-> channel, payload |-> payload])
      /\ exits' = exits \o done.ipc
      /\ logs' = logs \o done.logs
      /\ listeners' = SelectSeq(listeners, Stays)
      /\ UNCHANGED <<cmd, ipcLog>>
      /\ UNCHANGED <<contentVars, bisectVars>>

\* The renderer reports a line of output.
OutputEntry == Emit("OUTPUT_ENTRY", [timestamp |-> 0, text |-> "line"])

\* The renderer reports the end of a run.
RunDone(result) == Emit("RUN_DONE", result)

\* The renderer reports the end of a bisect.
BisectDone(result) == Emit("BISECT_DONE", result)

\* The renderer reports the end of a command.
CommandDone(success) == Emit("COMMAND_DONE", success)

\* ------------------------------------------------------- bisect controller

\* The ordered, deduplicated version list is its index range 1..n; good and
\* bad are positions in it.
BisectorIdle ==
  [state |-> "idle", n |-> 0, good |-> 0, bad |-> 0, mid |-> 0, runs |-> 0, inflight |-> 0]

MidpointNext(good, bad) == good + 1

\* Index-based midpoint of the remaining range.
Midpoint(good, bad) == (good + bad) \div 2

\* The range has collapsed: no version lies between good and bad.
Collapsed(good, bad) == bad - good <= 1

\* bisect(good, bad) over the full range of a list of n versions.
BisectBegin(n) ==
  /\ bisector.state = "idle"
  /\ bisector' = [BisectorIdle EXCEPT !.state = "searching", !.n = n, !.good = 1, !.bad = n]
  /\ UNCHANGED <<contentVars, cliVars>>

\* Step 1: a collapsed range is the result.
BisectTerminate ==
  /\ bisector.state = "searching"
  /\ Collapsed(bisector.good, bisector.bad)
  /\ bisector' = [bisector EXCEPT !.state = "done"]
  /\ UNCHANGED <<contentVars, cliVars>>

\* Steps 2 and 3: pick the midpoint and drive one run at it; the controller
\* then suspends until the terminal result arrives.
BisectRunMidpoint ==
  /\ bisector.state = "searching"
  /\ ~Collapsed(bisector.good, bisector.bad)
  /\ bisector' = [bisector EXCEPT !.state = "awaiting",
                                  !.mid = Midpoint(bisector.good, bisector.bad),
                                  !.runs = @ + 1,
                                  !.inflight = @ + 1]
  /\ UNCHANGED <<contentVars, cliVars>>

\* Step 4: success makes the midpoint the new good bound, failure the new bad.
BisectRunResult(result) ==
  /\ bisector.state = "awaiting"
  /\ bisector' = [bisector EXCEPT !.state = "searching",
                                  !.good = IF result = "success" THEN bisector.mid ELSE @,
                                  !.bad = IF result = "failure" THEN bisector.mid ELSE @,
                                  !.inflight = @ - 1]
  /\ UNCHANGED <<contentVars, cliVars>>

BisectorInit == bisector = BisectorIdle

CliInit ==
  /\ cmd = [name |-> "none", state |-> "start"]
  /\ ipcLog = <<>>
  /\ listeners = <<>>
  /\ exits = <<>>
  /\ logs = <<>>
  /\ events = <<>>

ContentInit ==
  /\ templateCache = [b \in Branches |-> 0]
  /\ promises = <<>>
  /\ calls = {}
  /\ catalog \in {Known(n) : n \in 0..Len(ReleaseHistory)}
  /\ disk \in {d \in [Branches -> {"absent", "complete"}] :
                 {b \in Branches : d[b] = "complete"} \in
                   {{}, {MasterBranch}, {MajorBranch(1)}}}

Init == ContentInit /\ CliInit /\ BisectorInit

PromiseNext ==
  \E i \in 1..MaxCalls :
    \/ \E ok \in BOOLEAN : FancyImportDone(i, ok)
    \/ \E outcome \in {"throw", "notok", "ok"} : FetchDone(i, outcome)
    \/ \E ok \in BOOLEAN : ArrayBufferDone(i, ok)
    \/ \E ok \in BOOLEAN : EnsureDirDone(i, ok)
    \/ \E outcome \in {"ok", "fail", "partial"} : DecompressDone(i, outcome)
    \/ ReadFiddleDone(i)

Next ==
  \/ \E version \in TemplateVersions : getTemplate(version)
  \/ PromiseNext
  \/ UpdateCatalog

Spec == Init /\ [][Next]_vars

FairSpec == Spec /\ WF_vars(PromiseNext)

\* The renderer's cache plays no part in a command-line invocation.
ContentIdle ==
  /\ templateCache = [b \in Branches |-> 0]
  /\ promises = <<>>
  /\ calls = {}
  /\ catalog = {}
  /\ disk = [b \in Branches |-> "absent"]

CliNext ==
  \/ \E cl \in BisectCommandLines : bisect(cl)
  \/ \E source \in OpenSources : open(source)
  \/ \E cl \in TestCommandLines : test(cl)
  \/ OutputEntry
  \/ \E result \in RunResults : RunDone(result)
  \/ \E result \in BisectResults : BisectDone(result)
  \/ \E success \in BOOLEAN : CommandDone(success)

CliStart == ContentIdle /\ CliInit /\ BisectorInit

CliSpec == CliStart /\ [][CliNext]_vars

BisectNext ==
  \/ \E n \in 2..MaxVersions : BisectBegin(n)
  \/ BisectTerminate
  \/ BisectRunMidpoint
  \/ \E result \in {"success", "failure"} : BisectRunResult(result)

BisectStart == ContentIdle /\ CliInit /\ BisectorInit

\* Every run the controller drives yields its terminal result.
BisectSpec == BisectStart /\ [][BisectNext]_vars /\ WF_vars(BisectNext)

\* ------------------------------------------------------------------ claims
Promises == 1..Len(promises)

\* What a getTemplate call resolves to, once its promise is fulfilled.
CallResult(c) == promises[c.pending].value

\* The majors of the parseable remote releases of a catalog.
RemoteMajors(versions) ==
  {e.version.major : e \in {x \in versions : x.source = "remote" /\ x.version.kind = "semver"}}

\* C1: however getTemplate calls for versions of one branch interleave with
\* each other and with the pending work, at most one acquisition is ever
\* started for the branch, and all those calls get the same promise and so
\* the same TemplateEntry.
C1_OneAcquisitionPerBranch ==
  /\ \A b \in Branches : Cardinality({i \in Promises : promises[i].branch = b}) <= 1
  /\ \A c1, c2 \in calls :
        c1.branch = c2.branch =>
          /\ c1.pending = c2.pending
          /\ CallResult(c1) = CallResult(c2)

\* Two calls with different versions of one branch, the second made while the
\* download the first started is still in flight.
C1_Witness ==
  \E c1, c2 \in calls :
    /\ c1.version # c2.version /\ c1.branch = c2.branch
    /\ promises[c1.pending].status = "pending"
    /\ promises[c1.pending].pc = "decompress"

\* C2: getTemplate never rejects: no promise in the cache is ever rejected,
\* every call holds the promise cached for its branch, and whatever the
\* import, fetch, status, unpack and read do, the promises all made so far
\* are again and again all fulfilled, so each call's promise is eventually
\* fulfilled.
C2_NeverRejects ==
  /\ [](\A i \in Promises : promises[i].status # "rejected")
  /\ [](\A c \in calls : c.pending \in Promises /\ templateCache[c.branch] = c.pending)
  /\ []<>(\A i \in Promises : promises[i].status = "fulfilled")

\* A call whose download failed at the unpack step has resolved.
C2_Witness ==
  \E c \in calls :
    /\ promises[c.pending].failed = "decompress"
    /\ promises[c.pending].status = "fulfilled"

\* C3: when the network acquisition of a branch fails at any step, the
\* folder prepareTemplate returns is the bundled static template directory,
\* the promise is not rejected, and the entry it is fulfilled with is the
\* static fallback content.
C3_FailureFallsBack ==
  \A i \in Promises :
    promises[i].failed # "none" =>
      /\ promises[i].strategy = "network"
      /\ promises[i].folder = STATIC_TEMPLATE_DIR
      /\ promises[i].status # "rejected"
      /\ promises[i].status = "fulfilled" => promises[i].value.origin = "static"

\* A download whose response was not ok has been fulfilled, and one whose
\* unpack failed half way has left a partial folder behind.
C3_Witness ==
  \E i \in Promises :
    /\ promises[i].failed \in {"status", "decompress"}
    /\ promises[i].status = "fulfilled"
    /\ promises[i].failed = "decompress" => disk[promises[i].branch] = "partial"

\* C4: a getTemplate call for a version whose major is greater than that of
\* every remote release of the catalog gets a promise of the static
\* strategy, whatever calls came before; such a promise never fetches and is
\* fulfilled with the static fallback content.
C4_NewerMajorStep ==
  \A c \in calls' \ calls :
    LET parsed == SemverParse(c.version)
        majors == RemoteMajors(catalog)
    IN  (parsed.valid /\ majors # {} /\ \A m \in majors : parsed.major > m) =>
          /\ c.pending \in 1..Len(promises')
          /\ promises'[c.pending].strategy = "static"

C4_StaticNeverFetches ==
  \A i \in Promises :
    promises[i].strategy = "static" =>
      /\ ~promises[i].fetched
      /\ promises[i].folder = STATIC_TEMPLATE_DIR
      /\ promises[i].status # "rejected"
      /\ promises[i].status = "fulfilled" => promises[i].value.origin = "static"

C4_NewerMajorIsStatic == [][C4_NewerMajorStep]_vars /\ []C4_StaticNeverFetches

\* A version newer than every remote release, numbered like a local build
\* the catalog knows, resolved to the static content after an earlier call.
C4_Witness ==
  \E c \in calls :
    /\ c.version.kind = "semver"
    /\ RemoteMajors(catalog) # {}
    /\ \A m \in RemoteMajors(catalog) : c.version.major > m
    /\ \E e \in catalog : e.source = "local" /\ e.version.major = c.version.major
    /\ promises[c.pending].status = "fulfilled"
    /\ CallResult(c).origin = "static"
    /\ Cardinality(calls) > 1

\* C5: a getTemplate call with no version and no cache entry for its branch
\* starts the network acquisition, and the static fallback is chosen
\* directly only for a version whose major is newer than the newest remote
\* release.
C5_Step ==
  \A c \in calls' \ calls :
    templateCache[c.branch] = 0 =>
      /\ c.version = Undefined => promises'[c.pending].strategy = "network"
      /\ promises'[c.pending].strategy = "static" =>
            /\ c.version.kind = "semver"
            /\ RemoteMajors(catalog) # {}
            /\ \A m \in RemoteMajors(catalog) : c.version.major > m

C5_UndefinedVersionUsesNetwork == [][C5_Step]_vars

\* C6: a branch's cache entry is never removed or replaced, a settled promise
\* never changes, and a getTemplate call for a branch that has an entry
\* returns that entry and creates no promise, whatever its version and
\* whatever the catalog holds by then.
C6_Step ==
  /\ \A b \in Branches : templateCache[b] # 0 => templateCache'[b] = templateCache[b]
  /\ \A i \in Promises :
        /\ i \in 1..Len(promises')
        /\ promises'[i].branch = promises[i].branch
        /\ promises[i].status # "pending" => promises'[i] = promises[i]
  /\ \A c \in calls' \ calls :
        templateCache[c.branch] # 0 =>
          /\ c.pending = templateCache[c.branch]
          /\ promises' = promises

C6_CacheEntryIsStable == [][C6_Step]_vars

\* The master entry was created as the static fallback and is shared by a
\* call for 0.0.0, which the catalog now says is a released major.
C6_Witness ==
  \E c1, c2 \in calls :
    /\ c1.version = Undefined /\ c2.version.kind = "semver"
    /\ c1.pending = c2.pending
    /\ isReleasedMajor(c2.version, catalog)
    /\ promises[c1.pending].strategy = "static"
    /\ promises[c1.pending].status = "fulfilled"

\* The events delivered so far on a channel, in order.
EventsOn(channel) ==
  LET OnChannel(e) == e.channel = channel
  IN  SelectSeq(events, OnChannel)

\* The requests sent so far on a channel, in order.
SentOn(channel) ==
  LET IsSend(m) == m.op = "send" /\ m.channel = channel
  IN  SelectSeq(ipcLog, IsSend)

Warnings ==
  LET IsWarn(l) == l.level = "warn"
  IN  SelectSeq(logs, IsWarn)

\* C7: for the test command, app.exit is not called before run-done arrives,
\* and when it arrives the exit code is 0 if and only if the RunResult is
\* success, and 1 for every other RunResult.
C7_TestExitCode ==
  cmd.name = "test" =>
    LET runs == EventsOn("RUN_DONE")
    IN  IF runs = <<>> THEN exits = <<>>
        ELSE /\ Len(exits) >= 1
             /\ exits[1] = 0 <=> runs[1].payload = "success"
             /\ exits[1] = 1 <=> runs[1].payload # "success"

\* test got a run-done that is neither success nor failure and exited with 1.
C7_Witness ==
  /\ cmd.name = "test"
  /\ EventsOn("RUN_DONE") # <<>>
  /\ EventsOn("RUN_DONE")[1].payload = "invalid"
  /\ exits = <<1>>

\* C8: for the bisect command, app.exit is not called before bisect-done
\* arrives, and when it arrives the exit code is 0 if and only if both
\* goodVersion and badVersion of the BisectResult are set, and 1 otherwise.
C8_BisectExitCode ==
  (cmd.name = "bisect" /\ cmd.state = "returned") =>
    LET dones == EventsOn("BISECT_DONE")
    IN  IF dones = <<>> THEN exits = <<>>
        ELSE /\ Len(exits) >= 1
             /\ exits[1] = 0 <=>
                  (dones[1].payload.goodVersion # Undefined
                     /\ dones[1].payload.badVersion # Undefined)
             /\ exits[1] \in {0, 1}

\* bisect got a result with only its good end set and exited with 1.
C8_Witness ==
  /\ cmd.name = "bisect" /\ cmd.state = "returned"
  /\ EventsOn("BISECT_DONE") # <<>>
  /\ EventsOn("BISECT_DONE")[1].payload.goodVersion # Undefined
  /\ EventsOn("BISECT_DONE")[1].payload.badVersion = Undefined
  /\ exits = <<1>>

\* C9: for two parseable versions given to bisect in either order, the
\* command returns having sent one bisect-fiddle request, which carries the
\* two versions with the first <= the second in semantic-version order; they
\* are swapped, with one warning, exactly when good > bad.
C9_BisectOrdersVersions ==
  (cmd.name = "bisect"
     /\ SemverParse(cmd.args.good).valid /\ SemverParse(cmd.args.bad).valid) =>
    LET good == SemverParse(cmd.args.good)
        bad == SemverParse(cmd.args.bad)
        requests == SentOn("FIDDLE_BISECT")
    IN  /\ cmd.state = "returned"
        /\ Len(requests) = 1
        /\ Len(requests[1].args) = 2
        /\ SemverCompare(SemverParse(requests[1].args[1]),
                         SemverParse(requests[1].args[2])) <= 0
        /\ IF SemverCompare(good, bad) > 0
             THEN /\ SemverParse(requests[1].args[1]) = bad
                  /\ SemverParse(requests[1].args[2]) = good
                  /\ Len(Warnings) = 1
             ELSE /\ SemverParse(requests[1].args[1]) = good
                  /\ SemverParse(requests[1].args[2]) = bad
                  /\ Warnings = <<>>

\* bisect 1.0.0 1.0.0-beta.1: the prerelease sorts first, so they are swapped.
C9_Witness ==
  /\ cmd.name = "bisect" /\ cmd.state = "returned"
  /\ cmd.args.good = VersionString(FALSE, 1, 0, 0, 0)
  /\ cmd.args.bad = VersionString(FALSE, 1, 0, 0, 1)
  /\ SentOn("FIDDLE_BISECT") =
       <<Send("FIDDLE_BISECT", <<cmd.args.bad, cmd.args.good>>)>>
  /\ Len(Warnings) = 1

IsGistId(str) ==
  Len(str) = GistIdLength /\ \A i \in 1..Len(str) : str[i] \in HexDigits

\* A gist reference: a bare gist id, or a URL beginning https://gist.github.com
\* whose final segment, one trailing slash stripped, is a gist id.
IsGistReference(text) ==
  \/ IsGistId(text)
  \/ StartsWith(text, GistUrlPrefix)
       /\ IsGistId(SplitPop(IF EndsWith(text, "/") THEN SliceDropLast(text) ELSE text, "/"))

\* C11: for open with an argument that is neither an existing local path nor
\* a gist reference, nothing happens: no request is sent, no listener is
\* registered, nothing is raised and app.exit is not called.
C11_UnrecognizedIsIgnored ==
  (cmd.name = "open" /\ ~cmd.args.exists /\ ~IsGistReference(cmd.args.text)) =>
    /\ cmd.state = "returned"
    /\ ipcLog = <<>>
    /\ listeners = <<>>
    /\ exits = <<>>
    /\ logs = <<>>

\* C12: the id of every load-gist request open sends is a 32-character
\* hexadecimal string, the bare argument or the final segment of a gist URL;
\* an argument or segment that is not exactly such an id produces no request.
C12_GistIdIsExact ==
  cmd.name = "open" =>
    /\ \A i \in 1..Len(SentOn("LOAD_GIST_REQUEST")) :
         /\ IsGistId(SentOn("LOAD_GIST_REQUEST")[i].args[1].id)
         /\ SentOn("LOAD_GIST_REQUEST")[i].args[1].id = GistIdOf(cmd.args.text)
    /\ ~IsGistReference(cmd.args.text) => SentOn("LOAD_GIST_REQUEST") = <<>>

\* The versions given to bisect, as the command compares them.
BisectGood == normalizeVersion(cmd.args.good)
BisectBad == normalizeVersion(cmd.args.bad)
BisectParses == SemverParse(BisectGood).valid /\ SemverParse(BisectBad).valid

ListenersOn(channel) == SelectSeq(listeners, LAMBDA l : l.channel = channel)

\* C13: when either version given to bisect cannot be parsed, the command
\* aborts with an error before the bisect-fiddle request is sent: no
\* bisect-fiddle request is sent and no bisect-done or output-entry listener
\* is registered.
C13_UnparseableAborts ==
  (cmd.name = "bisect" /\ ~BisectParses) =>
    /\ cmd.state = "threw"
    /\ SentOn("FIDDLE_BISECT") = <<>>
    /\ ListenersOn("BISECT_DONE") = <<>>
    /\ ListenersOn("OUTPUT_ENTRY") = <<>>
    /\ exits = <<>>

C13_Witness ==
  /\ cmd.name = "bisect" /\ cmd.state = "threw"
  /\ ~SemverParse(BisectBad).valid
  /\ SentOn("FS_OPEN_FIDDLE") # <<>>

\* C14: test sends a set-version request only when a version was given on the
\* command line: without --version no set-version request is sent, and with
\* --version v exactly set-version(v) is sent.
C14_SetVersionOnlyWhenGiven ==
  cmd.name = "test" =>
    IF cmd.args.version = Undefined
      THEN SentOn("SET_VERSION") = <<>>
      ELSE SentOn("SET_VERSION") = <<Send("SET_VERSION", <<cmd.args.version>>)>>

\* The fiddle location the user named for bisect.
BisectFiddleNamed ==
  IF cmd.args.fiddleDir # Undefined THEN cmd.args.fiddleDir ELSE cmd.args.fiddleGist

\* C15: bisect invoked with --fiddle-dir d or --fiddle-gist g sends an
\* open-fiddle request that carries that location, never an unset value.
C15_BisectLoadsNamedFiddle ==
  (cmd.name = "bisect" /\ BisectFiddleNamed # Undefined) =>
    /\ SentOn("FS_OPEN_FIDDLE") # <<>>
    /\ \A i \in 1..Len(SentOn("FS_OPEN_FIDDLE")) :
         /\ SentOn("FS_OPEN_FIDDLE")[i].args # <<Undefined>>
         /\ SentOn("FS_OPEN_FIDDLE")[i].args = <<BisectFiddleNamed>>

RECURSIVE CeilLog2(_)
\* The least k with 2^k >= n.
CeilLog2(n) == IF n <= 1 THEN 0 ELSE 1 + CeilLog2((n + 1) \div 2)

\* A run's result strictly narrows the range, and keeps it inside the old one.
C16_Step ==
  (bisector.state = "awaiting" /\ bisector'.state = "searching") =>
    /\ bisector'.bad - bisector'.good < bisector.bad - bisector.good
    /\ bisector.good <= bisector'.good
    /\ bisector'.good < bisector'.bad
    /\ bisector'.bad <= bisector.bad

\* C16: over an ordered, deduplicated list of N >= 2 versions and any
\* success/failure results, a bisect of the full range with index-based
\* midpoints has at most one run in flight, narrows the range strictly on
\* every step, terminates after at most ceil(log2(N)) runs, and returns two
\* versions adjacent in the list.
C16_BisectTerminates ==
  /\ [](/\ bisector.inflight <= 1
        /\ bisector.runs <= CeilLog2(bisector.n)
        /\ bisector.state = "done" =>
             /\ bisector.inflight = 0
             /\ 1 <= bisector.good /\ bisector.bad <= bisector.n
             /\ bisector.bad = bisector.good + 1)
  /\ [][C16_Step]_vars
  /\ (bisector.state # "idle") ~> (bisector.state = "done")

C16_Witness ==
  /\ bisector.state = "done"
  /\ bisector.n >= 6
  /\ bisector.runs = CeilLog2(bisector.n)
  /\ 1 < bisector.good /\ bisector.bad < bisector.n

\* The terminal events delivered so far to a test or bisect invocation.
TerminalEvents == EventsOn(IF cmd.name = "test" THEN "RUN_DONE" ELSE "BISECT_DONE")

\* The run request of a test or bisect invocation, once sent.
RunRequests == SentOn(IF cmd.name = "test" THEN "FIDDLE_RUN" ELSE "FIDDLE_BISECT")

\* C17: in a test or bisect invocation app.exit is called exactly once when
\* the terminal event (run-done, bisect-done) has been delivered at least
\* once, and never more than once, however often the terminal event is
\* repeated and whatever output entries arrive afterwards.
C17_ExitsExactlyOnce ==
  cmd.name \in {"test", "bisect"} =>
    /\ Len(exits) <= 1
    /\ RunRequests # <<>> => (Len(exits) = 1 <=> Len(TerminalEvents) >= 1)
    /\ RunRequests = <<>> => exits = <<>>

C17_Witness ==
  /\ cmd.name \in {"test", "bisect"}
  /\ Len(TerminalEvents) >= 2
  /\ Len(exits) = 1

\* The channels of the requests sent so far, in the order they were sent.
SendChannels ==
  LET IsSend(m) == m.op = "send"
      sends == SelectSeq(ipcLog, IsSend)
  IN  [i \in 1..Len(sends) |-> sends[i].channel]

\* The request orders the claim allows for bisect and for test.
BisectOrders ==
  {h \o s \o <<"FS_OPEN_FIDDLE", "FIDDLE_BISECT">> :
     h \in {<<>>, <<"HIDE_CHANNELS">>}, s \in {<<>>, <<"SHOW_CHANNELS">>}}
TestOrders ==
  {<<"FS_OPEN_FIDDLE">> \o v \o <<"FIDDLE_RUN">> : v \in {<<>>, <<"SET_VERSION">>}}

\* The requests of a bisect that aborts before its bisect-fiddle request.
BisectAbortedOrders ==
  {h \o s \o <<"FS_OPEN_FIDDLE">> :
     h \in {<<>>, <<"HIDE_CHANNELS">>}, s \in {<<>>, <<"SHOW_CHANNELS">>}}

\* C18 as stated: every test or bisect invocation sends its requests in the
\* fixed order and exactly one run request: bisect sends hide-channels (if
\* any), show-channels (if any), open-fiddle, then one bisect-fiddle; test
\* sends open-fiddle, set-version (if any), then one run-fiddle.
C18_EveryInvocationSendsOneRun ==
  /\ cmd.name = "bisect" => SendChannels \in BisectOrders
  /\ cmd.name = "test" => SendChannels \in TestOrders

\* C18, amended: the fixed order and the single run request hold for every
\* test invocation and every bisect invocation whose versions both parse; a
\* bisect given a version that cannot be parsed sends hide-channels (if any),
\* show-channels (if any) and open-fiddle in that order and no bisect-fiddle.
C18_FixedOrderOneRun ==
  /\ (cmd.name = "bisect" /\ BisectParses) => SendChannels \in BisectOrders
  /\ (cmd.name = "bisect" /\ ~BisectParses) => SendChannels \in BisectAbortedOrders
  /\ cmd.name = "test" => SendChannels \in TestOrders

C18_Witness ==
  /\ cmd.name = "bisect"
  /\ SendChannels = <<"HIDE_CHANNELS", "SHOW_CHANNELS", "FS_OPEN_FIDDLE", "FIDDLE_BISECT">>
  /\ Len(events) > 0

\* The request to whose answer a command listens, and the channel of its
\* terminal event.
RequestChannels ==
  IF cmd.name = "test" THEN {"FIDDLE_RUN"}
  ELSE IF cmd.name = "bisect" THEN {"FIDDLE_BISECT"}
  ELSE {"FS_OPEN_FIDDLE", "LOAD_GIST_REQUEST"}
TerminalChannel ==
  IF cmd.name = "test" THEN "RUN_DONE"
  ELSE IF cmd.name = "bisect" THEN "BISECT_DONE"
  ELSE "COMMAND_DONE"

\* The channels whose listener must be in place when the request goes out.
ListenedChannels ==
  {TerminalChannel} \cup (IF cmd.name \in {"test", "bisect"} THEN {"OUTPUT_ENTRY"} ELSE {})

RegisteredBefore(i, channel) ==
  \E j \in 1..(i - 1) : ipcLog[j].op \in {"on", "once"} /\ ipcLog[j].channel = channel

RequestSent ==
  \E i \in 1..Len(ipcLog) : ipcLog[i].op = "send" /\ ipcLog[i].channel \in RequestChannels

\* C19: in open (local path and gist), test and bisect the listener of the
\* terminal event, and for test and bisect the output-entry listener, is
\* registered before the request is sent; so from the moment the request is
\* out, the first terminal event and every output entry finds its listener.
C19_ListenersBeforeRequest ==
  cmd.name \in {"open", "test", "bisect"} =>
    /\ \A i \in 1..Len(ipcLog) :
         (ipcLog[i].op = "send" /\ ipcLog[i].channel \in RequestChannels) =>
           \A channel \in ListenedChannels : RegisteredBefore(i, channel)
    /\ (RequestSent /\ EventsOn(TerminalChannel) = <<>>) =>
         ListenersOn(TerminalChannel) # <<>>
    /\ (RequestSent /\ cmd.name \in {"test", "bisect"}) =>
         /\ ListenersOn("OUTPUT_ENTRY") # <<>>
         /\ Len(EventsOn("OUTPUT_ENTRY")) =
              Len(SelectSeq(logs, LAMBDA l : l = Log("output", <<[timestamp |-> 0, text |-> "line"]>>)))

C19_Witness ==
  /\ cmd.name = "test"
  /\ RequestSent
  /\ Len(EventsOn("OUTPUT_ENTRY")) = 1
  /\ Len(EventsOn("RUN_DONE")) = 1
  /\ Len(exits) = 1

\* The branch the claim derives from a version: 'M-x-y' for every parseable
\* major M, 'master' when the version is absent or has no resolvable major.
MajorOrMaster(version) ==
  IF SemverParse(version).valid THEN MajorBranch(SemverParse(version).major)
  ELSE MasterBranch

\* C20: the cache key of getTemplate is the branch of the version's major,
\* 'M-x-y' for every parseable major M, 0 included, and 'master' only for an
\* absent or unresolvable version; so two calls share a cache entry exactly
\* when their versions have the same major or both have none.
C20_KeyIsMajorBranch ==
  /\ \A c \in calls : c.branch = MajorOrMaster(c.version)
  /\ \A c, d \in calls :
       c.pending = d.pending <=> MajorOrMaster(c.version) = MajorOrMaster(d.version)
====
